---- MODULE Spec2Model ----
(***************************************************************************)
(* netthread.cpp: a reverse-DNS lookup of the local interfaces (getfqdn)   *)
(* raced against a millisecond timer (timer), both pthreads started and    *)
(* joined by main.  The three threads are modelled statement by statement  *)
(* at the granularity of their library calls; time is abstracted: the      *)
(* timer's sleep may complete at any moment.                               *)
(***************************************************************************)
EXTENDS Integers, Sequences, FiniteSets, TLC

----------------------------------------------------------------------------
(* Bounds of the model *)

\* longest address list getifaddrs returns
MaxAddrs == 2
\* longest name gethostname returns
MaxHostLen == 2
\* longest name getnameinfo returns
MaxNameLen == 2

\* most interruptions (EINTR) of one sleep of the timer
MaxEintr == 1

\* strings are sequences of characters
HostAlphabet == {"a"}
NameAlphabet == {"a", "b"}
StringsOver(alphabet, lo, hi) == UNION {[1..k -> alphabet] : k \in lo..hi}
HostNames == StringsOver(HostAlphabet, 0, MaxHostLen)
Names == StringsOver(NameAlphabet, 1, MaxNameLen)
EmptyString == <<>>

----------------------------------------------------------------------------
(* Constants of the program and of the libraries it calls *)

AF_INET == 2
AF_INET6 == 10
AF_PACKET == 17
ESRCH == 3
\* std::string::npos, the "not found" result of find
npos == -1
\* the thread ids pthread_create stores; 0 is the unset id of the constructor
timerTid == 1
rDnsTid == 2

\* a node of the list of getifaddrs is the sa_family of its ifa_addr, or
\* NullAddr when ifa_addr is null; AF_PACKET stands for the other families
NullAddr == 0
Nodes == {NullAddr, AF_INET, AF_INET6, AF_PACKET}
AddrLists == UNION {[1..k -> Nodes] : k \in 0..MaxAddrs}

\* what a library call returns in ierr: 0 or an error number
CallResults == {0, 1}
ArgCounts == 1..3

\* the texts given as argv[1]: no number, a negative one, and timeouts
\* below 1000 ms, of 1000 ms, and beyond the int range once in nanoseconds
ArgTexts ==
  { <<"x">>, <<"-", "1">>, <<"5">>, <<"1", "0", "0", "0">>,
    <<"4", "2", "9", "5">> }

\* int is 32 bits wide; Half is the weight of its upper half
IntBits == 32
Half == 2 ^ (IntBits \div 2)
\* nanoseconds in a millisecond: the factor of line 28
NsecPerMsec == 1000000
\* nanosleep takes tv_nsec in 0..MaxNsec and fails with EINVAL otherwise
MaxNsec == 999999999

----------------------------------------------------------------------------
VARIABLES
  \* main
  argc,         \* argument count the process was started with
  argv1,        \* the text of argv[1]; empty when argc # 2 (not read)
  timeout,      \* main's local timeout (line 189), msec
  mpc,          \* main's position
  exitCode,     \* main's return value, meaningful when mpc = "done"
  rdnsSuccess,  \* main's local flag (line 218)
  cerr,         \* the lines written to the error stream
  joined,       \* thread ids whose pthread_join succeeded
  \* the timer thread
  tpc,          \* "none", "sleep", "expired" (sleep completed), "cancelled"
  tcancel,      \* a cancellation request is pending on the timer
  rem,          \* rem.tv_nsec of the timer (rem.tv_sec is always 0); a
                \* local, 0 again once the thread has ended
  slept,        \* nanoseconds the timer has been blocked in nanosleep
  eintrs,       \* interruptions of the sleep so far, 0 again at the end
  \* class HostInfo
  Hostname, Fqdn, Error, TimerTid,
  \* the rdns thread (getfqdn)
  rpc,          \* position; "exited" (returned) or "cancelled" when terminated
  rcancel,      \* a cancellation request is pending on the rdns thread
  base,         \* local copy of the hostname (line 125)
  ifas,         \* the families of the list returned by getifaddrs
  ifasState,    \* "none", "failed", "held" (allocated), "freed"
  ifa,          \* index of the list node the loop is at
  host,         \* the name buffer of the last lookup (line 143)
  ierr,         \* getfqdn's ierr: result of the last library call
  \* history of the resolution, read by the properties only
  looked,       \* indices handed to getnameinfo, in call order
  verdict,      \* "none", "accepted", "rejected": test on the last candidate
  accepted,     \* index whose candidate was accepted, 0 when none
  fqdnWrites,   \* number of SetFqdn calls
  passedOver,   \* a lookup returned a qualifying name and the scan went on
  expiredFirst, \* the timer's sleep completed before any acceptance
  staleCancel,  \* pthread_cancel was called on a thread id already joined
  probedRunning, \* the rdns thread had not ended when main probed it
  failed        \* a reverse lookup has failed

mainVars == <<argc, argv1, timeout, mpc, exitCode, rdnsSuccess, cerr, joined>>
clockVars == <<rem, slept, eintrs>>
timerVars == <<tpc, tcancel, clockVars>>
infoVars == <<Hostname, Fqdn, Error, TimerTid>>
rdnsVars == <<rpc, rcancel, base, ifas, ifasState, ifa, host, ierr>>
histVars == <<looked, verdict, accepted, fqdnWrites, passedOver, expiredFirst,
              staleCancel, probedRunning, failed>>
vars == <<mainVars, timerVars, infoVars, rdnsVars, histVars>>

----------------------------------------------------------------------------
(* Strings *)

\* std::string::find: the first position (from 0) where b occurs in c
Find(c, b) ==
  LET hits == {p \in 0..(Len(c) - Len(b)) : SubSeq(c, p + 1, p + Len(b)) = b}
  IN IF hits = {} THEN npos
     ELSE CHOOSE p \in hits : \A q \in hits : p <= q

\* the test of line 165 with <= for <
AcceptsOrEqual(candidate, b) ==
  (Find(candidate, b) # npos) /\ Len(b) <= Len(candidate)

\* the test of line 165 without its find
AcceptsLongerOnly(candidate, b) == Len(b) < Len(candidate)

\* the acceptance test of line 165
Accepts(candidate, b) ==
  (Find(candidate, b) # npos) /\ Len(b) < Len(candidate)

\* atoi: an optional sign, then the decimal digits up to the first other
\* character; 0 when there is no digit
Digits == <<"0", "1", "2", "3", "4", "5", "6", "7", "8", "9">>
IsDigit(ch) == \E d \in DOMAIN Digits : Digits[d] = ch
DigitVal(ch) == (CHOOSE d \in DOMAIN Digits : Digits[d] = ch) - 1

RECURSIVE ParseDigits(_, _, _)
ParseDigits(text, i, acc) ==
  IF i > Len(text) \/ ~IsDigit(text[i])
    THEN acc
    ELSE ParseDigits(text, i + 1, 10 * acc + DigitVal(text[i]))

Atoi(text) ==
  IF text # <<>> /\ text[1] = "-"
    THEN -ParseDigits(text, 2, 0)
    ELSE ParseDigits(text, 1, 0)

\* the int product x * y of a build that wraps on signed overflow, computed
\* on the two halves of x so that no intermediate value leaves the width
IntTimes(x, y) ==
  LET lo == (x % Half) * y
      hi == (x \div Half) * y
      h == (hi + (lo \div Half)) % Half
      l == lo % Half
  IN IF h >= Half \div 2 THEN (h - Half) * Half + l ELSE h * Half + l

\* line 28: the value stored in rem.tv_nsec
SleepRequest(msec) == IntTimes(NsecPerMsec, msec)

\* nanosleep accepts the request
ValidRequest(nsec) == 0 <= nsec /\ nsec <= MaxNsec

----------------------------------------------------------------------------
(* class HostInfo *)

\* GetFqdn with the test of line 92 inverted
GetFqdnInverted == IF Error = 0 THEN Hostname ELSE Fqdn

\* HostInfo::GetFqdn
GetFqdn == IF Error # 0 THEN Hostname ELSE Fqdn

\* SetError without its assignment
SetErrorDropped(err) == UNCHANGED Error

\* line 64: HostInfo::SetError
SetError(err) == Error' = err

\* the constructor without line 86: Fqdn stays the empty string
CtorFqdnUnset(name) == EmptyString

\* line 86: the name the constructor stores in Fqdn
CtorFqdn(name) == name

\* HostInfo::HostInfo: gethostname fills the buffer or fails; on failure the
\* buffer is read uninitialised, so any name may be stored
HostInfoCtor ==
  \E gerr \in CallResults, name \in HostNames :
    /\ Error' = (IF gerr # 0 THEN -1 ELSE 0)
    /\ Hostname' = name
    /\ Fqdn' = CtorFqdn(name)

\* messages on the error stream
Msg(kind, val) == [kind |-> kind, val |-> val]

\* the process is running: main has not returned and nothing crashed it
Alive == mpc \notin {"done", "crashed"}

TimerTerminated == tpc \in {"expired", "cancelled"}
RdnsTerminated == rpc \in {"exited", "cancelled"}

----------------------------------------------------------------------------
(* main *)

Exit(code, kind) ==
  /\ mpc' = "done"
  /\ exitCode' = code
  /\ cerr' = Append(cerr, Msg(kind, EmptyString))

\* lines 180-184
CheckArgs ==
  /\ mpc = "args"
  /\ IF argc # 2
       THEN Exit(-1, "usage")
       ELSE mpc' = "create_timer" /\ UNCHANGED <<exitCode, cerr>>
  /\ UNCHANGED <<argc, argv1, timeout, rdnsSuccess, joined, timerVars,
                 infoVars, rdnsVars,
                 histVars>>

\* lines 186-195
CreateTimer ==
  /\ mpc = "create_timer"
  /\ timeout' = Atoi(argv1)
  /\ \E e \in CallResults :
       IF e # 0
         THEN Exit(-2, "timer_create") /\ UNCHANGED tpc
         ELSE mpc' = "create_rdns" /\ tpc' = "start"
              /\ UNCHANGED <<exitCode, cerr>>
  /\ UNCHANGED <<argc, argv1, rdnsSuccess, joined, tcancel, clockVars,
                 infoVars, rdnsVars, histVars>>

\* lines 197-206
CreateRdns ==
  /\ mpc = "create_rdns"
  /\ HostInfoCtor
  /\ TimerTid' = timerTid
  /\ \E e \in CallResults :
       IF e # 0
         THEN Exit(-1, "rdns_create") /\ UNCHANGED rpc
         ELSE mpc' = "join_timer" /\ rpc' = "start"
              /\ UNCHANGED <<exitCode, cerr>>
  /\ UNCHANGED <<argc, argv1, timeout, rdnsSuccess, joined, timerVars,
                 rcancel, base, ifas,
                 ifasState, ifa, host, ierr, histVars>>

\* lines 209-215, pthread_join returning 0: it blocks until the timer ended
JoinTimerOk ==
  /\ mpc = "join_timer"
  /\ TimerTerminated
  /\ joined' = joined \cup {timerTid}
  /\ mpc' = "probe"
  /\ UNCHANGED <<argc, argv1, timeout, exitCode, rdnsSuccess, cerr, timerVars,
                 infoVars,
                 rdnsVars, histVars>>

\* lines 211-215 without the return: the message is printed and main goes on
JoinTimerFailsNoReturn ==
  /\ mpc = "join_timer"
  /\ cerr' = Append(cerr, Msg("timer_wait", EmptyString))
  /\ mpc' = "probe"
  /\ UNCHANGED <<argc, argv1, timeout, exitCode, rdnsSuccess, joined,
                 timerVars, infoVars, rdnsVars, histVars>>

\* lines 209-215, pthread_join returning an error
JoinTimerFails ==
  /\ mpc = "join_timer"
  /\ Exit(-3, "timer_wait")
  /\ UNCHANGED <<argc, argv1, timeout, rdnsSuccess, joined, timerVars,
                 infoVars, rdnsVars,
                 histVars>>

\* what pthread_cancel(rDnsTid) may return: 0 while the thread runs; for a
\* thread that ended and is not joined yet the C library decides between
\* ESRCH and 0
ProbeResults == IF RdnsTerminated THEN {ESRCH, 0} ELSE {0}

\* lines 217-224, then on to `next`
ProbeThen(next) ==
  /\ mpc = "probe"
  /\ \E e \in ProbeResults :
       /\ rdnsSuccess' = (e = ESRCH)
       /\ rcancel' = (IF RdnsTerminated THEN rcancel ELSE TRUE)
  /\ probedRunning' = ~RdnsTerminated
  /\ mpc' = next
  /\ UNCHANGED <<argc, argv1, timeout, exitCode, cerr, joined, timerVars,
                 infoVars, rpc,
                 base, ifas, ifasState, ifa, host, ierr, looked, verdict,
                 accepted, fqdnWrites, passedOver, expiredFirst, staleCancel,
                 failed>>

\* the probe with the join of lines 226-232 left out
ProbeNoJoin == ProbeThen("report")

\* lines 217-224: the probe, followed by the join of line 227
Probe == ProbeThen("join_rdns")

\* the join of line 227 given timerTid again instead of rDnsTid
JoinRdnsWrongThread ==
  /\ mpc = "join_rdns"
  /\ TimerTerminated
  /\ joined' = joined \cup {timerTid}
  /\ mpc' = "report"
  /\ UNCHANGED <<argc, argv1, timeout, exitCode, rdnsSuccess, cerr, timerVars,
                 infoVars,
                 rdnsVars, histVars>>

\* lines 226-232, pthread_join returning 0: it blocks until the thread ended
JoinRdnsOk ==
  /\ mpc = "join_rdns"
  /\ RdnsTerminated
  /\ joined' = joined \cup {rDnsTid}
  /\ mpc' = "report"
  /\ UNCHANGED <<argc, argv1, timeout, exitCode, rdnsSuccess, cerr, timerVars,
                 infoVars,
                 rdnsVars, histVars>>

\* lines 226-232, pthread_join returning an error
JoinRdnsFails ==
  /\ mpc = "join_rdns"
  /\ Exit(-5, "rdns_wait")
  /\ UNCHANGED <<argc, argv1, timeout, rdnsSuccess, joined, timerVars,
                 infoVars, rdnsVars,
                 histVars>>

\* lines 235-245 without the else: "took too long" is always printed
DiagnosticsNoElse ==
  (IF rdnsSuccess /\ Error # 0 THEN <<Msg("nomatch", EmptyString)>> ELSE <<>>)
    \o <<Msg("toolong", EmptyString)>>

\* lines 234-245: the diagnostics
Diagnostics ==
  IF rdnsSuccess
    THEN IF Error # 0 THEN <<Msg("nomatch", EmptyString)>> ELSE <<>>
    ELSE <<Msg("toolong", EmptyString)>>

\* main returning the error flag of the record instead of 0
ReportCodeFromError == Error

\* line 249
ReportCode == 0

\* lines 234-249
Report ==
  /\ mpc = "report"
  /\ cerr' = cerr \o Diagnostics \o <<Msg("fqdn", GetFqdn)>>
  /\ exitCode' = ReportCode
  /\ mpc' = "done"
  /\ UNCHANGED <<argc, argv1, timeout, rdnsSuccess, joined, timerVars,
                 infoVars, rdnsVars,
                 histVars>>

----------------------------------------------------------------------------
(* timer *)

\* lines 26-28: the sleep request is built from the timeout
TimerStart ==
  /\ Alive
  /\ tpc = "start"
  /\ rem' = SleepRequest(timeout)
  /\ tpc' = "sleep"
  /\ UNCHANGED <<mainVars, tcancel, slept, eintrs, infoVars, rdnsVars,
                 histVars>>

\* the time left when a sleep of nsec is interrupted
Remaining(nsec) == {nsec \div 2}

\* what the loop of line 29 does when nanosleep returns -1 with EINTR
AfterEintr == "sleep"

\* line 29: nanosleep is interrupted, stores the time left in rem and
\* returns -1 with EINTR
TimerInterrupted ==
  /\ Alive
  /\ tpc = "sleep"
  /\ ~tcancel
  /\ ValidRequest(rem)
  /\ rem > 0
  /\ eintrs < MaxEintr
  /\ \E left \in Remaining(rem) :
       /\ rem' = left
       /\ slept' = slept + (rem - left)
  /\ eintrs' = eintrs + 1
  /\ tpc' = AfterEintr
  /\ expiredFirst' = (IF AfterEintr = "sleep" THEN expiredFirst
                                               ELSE accepted = 0)
  /\ UNCHANGED <<mainVars, tcancel, infoVars, rdnsVars, looked, verdict,
                 accepted, fqdnWrites, passedOver, staleCancel, probedRunning,
                 failed>>

\* lines 29-30: nanosleep refuses the request (-1 with EINVAL): the loop
\* ends and the thread returns without having slept
TimerRefused ==
  /\ Alive
  /\ tpc = "sleep"
  /\ ~tcancel
  /\ ~ValidRequest(rem)
  /\ tpc' = "expired"
  /\ expiredFirst' = (accepted = 0)
  /\ rem' = 0
  /\ eintrs' = 0
  /\ UNCHANGED <<mainVars, tcancel, slept, infoVars, rdnsVars, looked,
                 verdict, accepted, fqdnWrites, passedOver, staleCancel,
                 probedRunning, failed>>

\* lines 29-30: nanosleep returns 0 after the time in rem, the thread returns
TimerExpires ==
  /\ Alive
  /\ tpc = "sleep"
  /\ ~tcancel
  /\ ValidRequest(rem)
  /\ slept' = slept + rem
  /\ tpc' = "expired"
  /\ expiredFirst' = (accepted = 0)
  /\ rem' = 0
  /\ eintrs' = 0
  /\ UNCHANGED <<mainVars, tcancel, infoVars, rdnsVars, looked, verdict,
                 accepted, fqdnWrites, passedOver, staleCancel, probedRunning,
                 failed>>

\* nanosleep is a cancellation point: a pending request ends the thread
TimerCancelled ==
  /\ Alive
  /\ tpc \in {"start", "sleep"}
  /\ tcancel
  /\ tpc' = "cancelled"
  /\ rem' = 0
  /\ eintrs' = 0
  /\ UNCHANGED <<mainVars, tcancel, slept, infoVars, rdnsVars, histVars>>

----------------------------------------------------------------------------
(* getfqdn *)

\* lines 124-126
RdnsStart ==
  /\ Alive
  /\ rpc = "start"
  /\ base' = Hostname
  /\ rpc' = "getifaddrs"
  /\ UNCHANGED <<mainVars, timerVars, infoVars, rcancel, ifas, ifasState, ifa,
                 host, ierr, histVars>>

\* lines 128-136
Getifaddrs ==
  /\ Alive
  /\ rpc = "getifaddrs"
  /\ ~rcancel
  /\ \E e \in CallResults, list \in AddrLists :
       /\ ierr' = e
       /\ IF e # 0
            THEN /\ SetError(-2)
                 /\ rpc' = "exited"
                 /\ ifasState' = "failed"
                 /\ UNCHANGED <<ifas, ifa>>
            ELSE /\ ifas' = list
                 /\ ifasState' = "held"
                 /\ ifa' = 1
                 /\ rpc' = "loop"
                 /\ UNCHANGED Error
  /\ UNCHANGED <<mainVars, timerVars, Hostname, Fqdn, TimerTid, rcancel, base,
                 host, histVars>>

\* line 140
Fam(node) == IF node # NullAddr THEN node ELSE -1

\* line 141
IsInet(node) == (Fam(node) = AF_INET) \/ (Fam(node) = AF_INET6)

\* lines 138-141 and 171-172: the loop test and the family test; the buffer
\* of line 143 belongs to one pass of the loop and is empty at the next
LoopStep ==
  /\ Alive
  /\ rpc = "loop"
  /\ IF ifa > Len(ifas)
       THEN rpc' = "free" /\ UNCHANGED ifa
       ELSE IF IsInet(ifas[ifa])
              THEN rpc' = "lookup" /\ UNCHANGED ifa
              ELSE ifa' = ifa + 1 /\ UNCHANGED rpc
  /\ host' = EmptyString
  /\ verdict' = "none"
  /\ UNCHANGED <<mainVars, timerVars, infoVars, rcancel, base, ifas, ifasState,
                 ierr, looked, accepted, fqdnWrites, passedOver, expiredFirst,
                 staleCancel, probedRunning, failed>>

\* the test of line 165 as the specification words it, for the history only
Qualifies(c, b) ==
  /\ Len(c) > Len(b)
  /\ \E i \in 1..(Len(c) + 1), j \in 0..Len(c) : SubSeq(c, i, j) = b

\* lines 156-162 with the scan given up at the first failed lookup
LookupFailStops == "free"

\* line 161: after a failed lookup the loop continues with the next node
LookupFailNext == "loop"

\* lines 143-170 up to the call of SetFqdn: getnameinfo and the test
Lookup ==
  /\ Alive
  /\ rpc = "lookup"
  /\ ~rcancel
  /\ looked' = Append(looked, ifa)
  /\ \E e \in CallResults, name \in Names :
       /\ ierr' = e
       /\ IF e # 0
            THEN /\ host' = EmptyString
                 /\ SetError(-3)
                 /\ failed' = TRUE
                 /\ verdict' = "none"
                 /\ ifa' = ifa + 1
                 /\ rpc' = LookupFailNext
                 /\ UNCHANGED passedOver
            ELSE /\ host' = name
                 /\ UNCHANGED <<Error, failed>>
                 /\ IF Accepts(name, base)
                      THEN /\ verdict' = "accepted"
                           /\ rpc' = "setfqdn"
                           /\ UNCHANGED <<ifa, passedOver>>
                      ELSE /\ verdict' = "rejected"
                           /\ ifa' = ifa + 1
                           /\ rpc' = "loop"
                           /\ passedOver' = (passedOver \/ Qualifies(name, base))
  /\ UNCHANGED <<mainVars, timerVars, Hostname, Fqdn, TimerTid, rcancel, base,
                 ifas, ifasState, accepted, fqdnWrites, expiredFirst,
                 staleCancel, probedRunning>>

\* what pthread_cancel does to the process when the id it is given was
\* already joined: the id is dangling, the call has no effect or faults
StaleCancelOutcomes == {"noeffect", "fault"}

\* lines 100-105: HostInfo::SetFqdn(host), after which the loop is at
\* position `next` and node `node`
SetFqdnThen(next, node) ==
  /\ Alive
  /\ rpc = "setfqdn"
  /\ Fqdn' = host
  /\ Error' = 0
  /\ accepted' = ifa
  /\ fqdnWrites' = fqdnWrites + 1
  /\ rpc' = next
  /\ ifa' = node
  /\ IF TimerTid \in joined
       THEN /\ staleCancel' = TRUE
            /\ \E o \in StaleCancelOutcomes :
                 mpc' = (IF o = "fault" THEN "crashed" ELSE mpc)
            /\ UNCHANGED tcancel
       ELSE /\ tcancel' = (IF TimerTerminated THEN tcancel ELSE TRUE)
            /\ UNCHANGED <<staleCancel, mpc>>
  /\ UNCHANGED <<argc, argv1, timeout, exitCode, rdnsSuccess, cerr, joined,
                 tpc, clockVars, Hostname,
                 TimerTid, rcancel, base, ifas, ifasState, host, ierr, looked,
                 verdict, passedOver, expiredFirst, probedRunning, failed>>

\* SetFqdn without the break of line 169: the scan goes on to the next node
SetFqdnNoBreak == SetFqdnThen("loop", ifa + 1)

\* lines 168-169: SetFqdn(candidate), then break
SetFqdn == SetFqdnThen("free", ifa)

\* lines 173-174
Freeifaddrs ==
  /\ Alive
  /\ rpc = "free"
  /\ ifasState' = "freed"
  /\ rpc' = "exited"
  /\ UNCHANGED <<mainVars, timerVars, infoVars, rcancel, base, ifas, ifa, host,
                 ierr, histVars>>

\* getifaddrs and getnameinfo are cancellation points: a pending request
\* ends the thread there, and nothing of getfqdn runs after it
RdnsCancelled ==
  /\ Alive
  /\ rpc \in {"getifaddrs", "lookup"}
  /\ rcancel
  /\ rpc' = "cancelled"
  /\ UNCHANGED <<mainVars, timerVars, infoVars, rcancel, base, ifas, ifasState,
                 ifa, host, ierr, histVars>>

----------------------------------------------------------------------------
Init ==
  /\ argc \in ArgCounts
  /\ argv1 \in (IF argc = 2 THEN ArgTexts ELSE {EmptyString})
  /\ timeout = 0
  /\ mpc = "args"
  /\ exitCode = 0
  /\ rdnsSuccess = FALSE
  /\ cerr = <<>>
  /\ joined = {}
  /\ tpc = "none"
  /\ tcancel = FALSE
  /\ rem = 0
  /\ slept = 0
  /\ eintrs = 0
  /\ Hostname = EmptyString
  /\ Fqdn = EmptyString
  /\ Error = 0
  /\ TimerTid = 0
  /\ rpc = "none"
  /\ rcancel = FALSE
  /\ base = EmptyString
  /\ ifas = <<>>
  /\ ifasState = "none"
  /\ ifa = 0
  /\ host = EmptyString
  /\ ierr = 0
  /\ looked = <<>>
  /\ verdict = "none"
  /\ accepted = 0
  /\ fqdnWrites = 0
  /\ passedOver = FALSE
  /\ expiredFirst = FALSE
  /\ staleCancel = FALSE
  /\ probedRunning = FALSE
  /\ failed = FALSE

Next ==
  \/ CheckArgs
  \/ CreateTimer
  \/ CreateRdns
  \/ JoinTimerOk
  \/ JoinTimerFails
  \/ Probe
  \/ JoinRdnsOk
  \/ JoinRdnsFails
  \/ Report
  \/ TimerStart
  \/ TimerInterrupted
  \/ TimerRefused
  \/ TimerExpires
  \/ TimerCancelled
  \/ RdnsStart
  \/ Getifaddrs
  \/ LoopStep
  \/ Lookup
  \/ SetFqdn
  \/ Freeifaddrs
  \/ RdnsCancelled

Spec == Init /\ [][Next]_vars

----------------------------------------------------------------------------
(* Vocabulary of the properties *)

\* main wrote the line "fqdn=<value>"; Reported is that value
HasReport == cerr # <<>> /\ cerr[Len(cerr)].kind = "fqdn"
Reported == cerr[Len(cerr)].val
Said(kind) == \E i \in DOMAIN cerr : cerr[i].kind = kind
\* a pthread_join of main returned an error
JoinFailed == Said("timer_wait") \/ Said("rdns_wait")
\* the rdns thread was created
Launched == rpc # "none"
\* getfqdn ran its loop to the end of the list and accepted nothing
Exhausted ==
  /\ rpc = "exited"
  /\ ifasState = "freed"
  /\ accepted = 0
  /\ ifa = Len(ifas) + 1
\* the indices of the inet addresses among the first n nodes, in list order
InetUpTo(n) == {i \in 1..n : i <= Len(ifas) /\ IsInet(ifas[i])}
Last(seq) == seq[Len(seq)]
Range(seq) == {seq[i] : i \in DOMAIN seq}

----------------------------------------------------------------------------
(* The claims *)

\* C1: if the timer's sleep completes before getfqdn accepted a candidate,
\* the value printed after "fqdn=" is the hostname, also when getfqdn
\* accepts a candidate afterwards.
C1_TimerFirstReportsHostname ==
  (HasReport /\ expiredFirst) => Reported = Hostname

\* C2: if getfqdn accepts a candidate and returns before the timer's sleep
\* completes, the value printed after "fqdn=" is that candidate, and the
\* rdns thread was joined before main returned.
C2_ResolvedFirstReportsCandidate ==
  (mpc = "done" /\ ~JoinFailed /\ accepted # 0 /\ ~expiredFirst)
    => /\ exitCode = 0
       /\ HasReport
       /\ Reported = host
       /\ rpc = "exited"
       /\ rDnsTid \in joined

C2_Witness ==
  /\ mpc = "done"
  /\ HasReport
  /\ accepted # 0
  /\ ~expiredFirst
  /\ Reported = host
  /\ Reported # Hostname
  /\ rDnsTid \in joined

\* C3: if getfqdn scans the whole list and accepts nothing (no address, every
\* lookup failing, or every candidate rejected), main reports the hostname
\* and returns 0: the only other returns are the two of a failed
\* pthread_join.
C3_ExhaustedReportsHostname ==
  (mpc = "done" /\ Exhausted)
    => /\ exitCode \in {0, -3, -5}
       /\ (exitCode # 0) <=> JoinFailed
       /\ (exitCode = 0) => (HasReport /\ Reported = Hostname)

C3_Witness ==
  /\ mpc = "done"
  /\ Exhausted
  /\ exitCode = 0
  /\ HasReport
  /\ Reported = Hostname
  /\ Len(looked) >= 2
  /\ Error = -3

\* C4: a candidate returned by a successful lookup is accepted exactly when
\* the hostname occurs in it and it is longer than the hostname; one equal
\* to the hostname or shorter is rejected.
C4_AcceptancePolicy ==
  /\ (verdict = "accepted") => Qualifies(host, base)
  /\ (verdict = "rejected") => ~Qualifies(host, base)
  /\ (verdict # "none" /\ (host = base \/ Len(host) <= Len(base)))
       => verdict = "rejected"
  /\ (rpc = "setfqdn") => verdict = "accepted"

C4_Witness ==
  /\ verdict = "rejected"
  /\ host = base
  /\ base # EmptyString

\* C5: the candidate written to Fqdn is that of the first address, in list
\* order, whose lookup returns a qualifying name; after the acceptance no
\* lookup is made, and Fqdn is written at most once.
C5_FirstAcceptedWins ==
  /\ fqdnWrites <= 1
  /\ ~passedOver
  /\ (fqdnWrites = 0) <=> (accepted = 0)
  /\ (accepted # 0)
       => /\ Fqdn = host
          /\ Last(looked) = accepted
          /\ Range(looked) = InetUpTo(accepted)
  /\ \A i, j \in DOMAIN looked : i < j => looked[i] < looked[j]

C5_Witness ==
  /\ rpc = "exited"
  /\ accepted = 2
  /\ looked = <<1, 2>>
  /\ Len(ifas) > 2 => IsInet(ifas[3])
  /\ Fqdn = host
  /\ Fqdn # Hostname

\* C6: main reads Error and Fqdn (GetError, GetFqdn) only after the rdns
\* thread has ended and was joined, and main writes the record only before
\* the rdns thread exists.
C6_ReadsAfterJoin ==
  /\ (mpc = "report") => (RdnsTerminated /\ rDnsTid \in joined)
  /\ HasReport => (RdnsTerminated /\ rDnsTid \in joined)
  /\ (mpc \in {"args", "create_timer", "create_rdns"}) => rpc = "none"

C6_Witness ==
  /\ mpc = "report"
  /\ accepted # 0
  /\ Fqdn # Hostname

\* C7: once enumeration succeeded, the list of getifaddrs is freed by the
\* time the rdns thread is retired, on every way the thread ends, being
\* cancelled in a lookup included.
C7_ListFreedWhenRetired ==
  (rDnsTid \in joined /\ ifasState # "none" /\ ifasState # "failed")
    => ifasState = "freed"

\* C8 as stated: whenever the rdns thread was launched, main joins it before
\* the process exits, whatever the outcome, the failed wait on the timer
\* included.
C8_AlwaysJoinedBeforeExit ==
  (mpc = "done" /\ Launched) => rDnsTid \in joined

\* C8 as amended: whenever the rdns thread was launched and main returns,
\* either the wait on the timer failed (return -3, the rdns thread is not
\* joined), or main called pthread_join on the rdns thread: it returns 0
\* only with the thread joined, and -5 when that join failed.
C8_JoinedUnlessWaitFails ==
  (mpc = "done" /\ Launched)
    => \/ exitCode = -3 /\ Last(cerr).kind = "timer_wait"
          /\ timerTid \notin joined /\ rDnsTid \notin joined
       \/ exitCode = -5 /\ Last(cerr).kind = "rdns_wait"
          /\ timerTid \in joined /\ rDnsTid \notin joined
       \/ exitCode = 0 /\ HasReport
          /\ timerTid \in joined /\ rDnsTid \in joined /\ RdnsTerminated

C8_Witness ==
  /\ mpc = "done"
  /\ exitCode = 0
  /\ rpc = "cancelled"
  /\ rDnsTid \in joined

\* C9: whenever the probe found the rdns thread still running (the "took
\* too long" diagnostic is printed), the value reported is the hostname,
\* also when getfqdn had accepted a candidate before it was retired.
C9_TimedOutReportsHostname ==
  (HasReport /\ Said("toolong") /\ probedRunning) => Reported = Hostname

\* C10: Fqdn is always either equal to Hostname or a longer string that
\* contains Hostname, and Hostname never changes once the constructor set
\* it.
C10_FqdnShape ==
  /\ [](Fqdn = Hostname \/ Qualifies(Fqdn, Hostname))
  /\ [][(mpc # "create_rdns") => (Hostname' = Hostname)]_vars

C10_Witness ==
  /\ Fqdn # Hostname
  /\ Hostname # EmptyString
  /\ rpc = "exited"

\* C11: once getfqdn has accepted a candidate (SetFqdn set Error to 0), Error
\* is 0 in every later state: no later lookup failure or other step sets an
\* error value again.
C11_ErrorStaysNone ==
  /\ [](accepted # 0 => Error = 0)
  /\ [][(accepted # 0 /\ Error = 0) => Error' = 0]_vars

C11_Witness ==
  /\ accepted = 1
  /\ Len(ifas) >= 2
  /\ IsInet(ifas[2])
  /\ Error = 0
  /\ rpc = "exited"
  /\ mpc = "done"

\* a time in nanoseconds is exactly msec milliseconds
IsMsec(nsec, msec) == nsec % NsecPerMsec = 0 /\ nsec \div NsecPerMsec = msec

\* C12: for every non-negative timeout the request the timer builds is that
\* duration, the time slept so far plus the time still requested stays that
\* duration across interruptions, and when the sleep ends uncancelled the
\* timer was blocked for exactly that duration.
C12_TimerBlocksForDuration ==
  /\ (tpc = "sleep" /\ timeout >= 0)
       => (ValidRequest(rem) /\ IsMsec(slept + rem, timeout))
  /\ (tpc = "expired" /\ timeout >= 0) => IsMsec(slept, timeout)

\* what holds of the timer: C12 for the timeouts below 1000 ms
C12_HoldsBelowOneSecond ==
  (timeout >= 0 /\ timeout < 1000)
    => /\ (tpc = "sleep") => (ValidRequest(rem) /\ IsMsec(slept + rem, timeout))
       /\ (tpc = "expired") => IsMsec(slept, timeout)

\* the text is a non-negative decimal integer
IsTimeoutText(text) ==
  text # EmptyString /\ \A i \in DOMAIN text : IsDigit(text[i])

\* C13: when argv[1] is missing or is not a non-negative integer, main fails
\* with an error and launches neither the timer nor the rdns thread.
C13_BadTimeoutIsRejected ==
  (argc # 2 \/ ~IsTimeoutText(argv1))
    => /\ tpc = "none"
       /\ rpc = "none"
       /\ (mpc = "done") => (exitCode # 0 /\ ~Said("fqdn"))

\* C14: soft conditions never change the exit code.  Once main has joined both
\* threads it only reports: it ends with exit code 0 and its last line is
\* "fqdn=" followed by the hostname or by the accepted candidate, whatever
\* lookup failure, enumeration failure, missing match or timeout occurred.
BothJoined == {timerTid, rDnsTid} \subseteq joined
C14_SoftConditionsExitZero ==
  BothJoined =>
    /\ mpc \in {"report", "done"}
    /\ (mpc = "done") =>
         /\ exitCode = 0
         /\ HasReport
         /\ \/ Reported = Hostname
            \/ accepted # 0 /\ Reported = host
C14_Witness ==
  /\ mpc = "done"
  /\ BothJoined
  /\ failed
  /\ Error # 0
  /\ Said("toolong")
  /\ exitCode = 0
  /\ HasReport

\* C15: a fatal condition ends main at once with its code and without an
\* "fqdn=" line.  A wrong argument count gives -1 before any thread is created
\* and before any address is enumerated or looked up; a failed creation of
\* the timer gives -2, of the rdns thread -1; a failed join of the timer gives
\* -3, of the rdns thread -5.  The fatal message is the last line written and
\* main ends without an "fqdn=" line only through one of these five.
FatalKinds ==
  {"usage", "timer_create", "rdns_create", "timer_wait", "rdns_wait"}
FatalCode(kind) ==
  CASE kind = "usage" -> -1
    [] kind = "timer_create" -> -2
    [] kind = "rdns_create" -> -1
    [] kind = "timer_wait" -> -3
    [] kind = "rdns_wait" -> -5
C15_FatalAbortsAtOnce ==
  /\ (argc # 2) =>
       /\ tpc = "none" /\ rpc = "none"
       /\ ifasState = "none" /\ looked = <<>>
       /\ (mpc = "done") =>
            (exitCode = -1 /\ cerr = <<Msg("usage", EmptyString)>>)
  /\ \A kind \in FatalKinds :
       Said(kind) =>
         /\ mpc = "done"
         /\ exitCode = FatalCode(kind)
         /\ Last(cerr).kind = kind
         /\ ~Said("fqdn")
         /\ \A i \in DOMAIN cerr : cerr[i].kind \in FatalKinds => i = Len(cerr)
  /\ Said("timer_create") => (tpc = "none" /\ rpc = "none")
  /\ Said("rdns_create") => (rpc = "none" /\ joined = {})
  /\ Said("timer_wait") => (joined = {} /\ ~Said("toolong") /\ ~Said("nomatch"))
  /\ Said("rdns_wait") => (rDnsTid \notin joined /\ ~Said("nomatch"))
  /\ (mpc = "done" /\ ~HasReport) => (\E kind \in FatalKinds : Said(kind))
  /\ (mpc = "done" /\ HasReport) => exitCode = 0
C15_Witness ==
  /\ mpc = "done"
  /\ Said("rdns_wait")
  /\ exitCode = -5
  /\ accepted # 0
  /\ Fqdn # Hostname
  /\ ~Said("fqdn")

\* C16: a failed reverse lookup sets Error to -3 and does not end the scan.
\* The nodes looked up so far are, in the order of the list, all the inet
\* nodes before the current one, so a scan that ends without an acceptance has
\* looked up every inet node.  When a node after a failed lookup is accepted,
\* Fqdn is that candidate, Error is 0 and GetFqdn returns the candidate.
ScanDoneUpTo ==
  IF rpc = "setfqdn" \/ accepted # 0 THEN ifa ELSE ifa - 1
C16_FailedLookupScanGoesOn ==
  /\ (failed /\ accepted = 0) => Error = -3
  /\ (ifasState \in {"held", "freed"}) =>
       /\ Range(looked) = InetUpTo(ScanDoneUpTo)
       /\ \A i, j \in DOMAIN looked : i < j => looked[i] < looked[j]
  /\ (rpc \in {"free", "exited"} /\ ifasState # "failed" /\ accepted = 0) =>
       Range(looked) = InetUpTo(Len(ifas))
  /\ (failed /\ accepted # 0) =>
       /\ Fqdn = host
       /\ Accepts(host, base)
       /\ Error = 0
       /\ GetFqdn = host
C16_Witness ==
  /\ failed
  /\ looked = <<1, 2>>
  /\ accepted = 2
  /\ rpc = "exited"
  /\ Fqdn = host
  /\ Fqdn # Hostname
  /\ Error = 0

\* C17: when getifaddrs fails, getfqdn sets Error to -2 and returns: no
\* reverse lookup is made, Fqdn is never written and still holds the
\* hostname, and no cancellation is sent to the timer.  If both joins then
\* succeed, main reports the hostname and returns 0.
C17_EnumerationFailureFallsBack ==
  (ifasState = "failed") =>
    /\ Error = -2
    /\ rpc = "exited"
    /\ looked = <<>>
    /\ ~failed
    /\ fqdnWrites = 0 /\ accepted = 0
    /\ Fqdn = Hostname
    /\ GetFqdn = Hostname
    /\ ~tcancel /\ tpc # "cancelled" /\ ~staleCancel
    /\ mpc # "crashed"
    /\ (mpc = "done" /\ ~JoinFailed) =>
         (exitCode = 0 /\ HasReport /\ Reported = Hostname)
C17_Witness ==
  /\ ifasState = "failed"
  /\ mpc = "done"
  /\ exitCode = 0
  /\ HasReport
  /\ Reported = Hostname
  /\ Hostname # EmptyString
  /\ tpc = "expired"

\* C18: when the probe of main found the rdns thread ended (rdnsSuccess), the
\* report depends on Error alone: with Error set main prints "failed to find
\* a match" and the hostname and never "took too long"; with Error 0 it
\* prints Fqdn and no diagnostic.  Otherwise it prints "took too long".  A
\* report so falls in exactly one of the three outcomes and carries at most
\* one of the two diagnostics.
NoMatch == rdnsSuccess /\ Error # 0
Resolved == rdnsSuccess /\ Error = 0
TimedOut == ~rdnsSuccess
C18_OutcomeFromProbeAndError ==
  /\ rdnsSuccess => (rpc = "exited" /\ ~probedRunning)
  /\ HasReport =>
       /\ NoMatch =>
            cerr = <<Msg("nomatch", EmptyString), Msg("fqdn", Hostname)>>
       /\ Resolved => cerr = <<Msg("fqdn", Fqdn)>>
       /\ TimedOut =>
            cerr = <<Msg("toolong", EmptyString), Msg("fqdn", GetFqdn)>>
       /\ Said("nomatch") <=> NoMatch
       /\ Said("toolong") <=> TimedOut
       /\ ~(Said("nomatch") /\ Said("toolong"))
C18_Witness ==
  /\ HasReport
  /\ NoMatch
  /\ failed
  /\ Said("nomatch")
  /\ ~Said("toolong")
  /\ Reported = Hostname
  /\ Hostname # EmptyString

\* C19: the cancellation of SetFqdn is sent to the timer only while its
\* thread id is valid: pthread_cancel(TimerTid) is never called after main
\* has joined the timer.
C19_NoCancelAfterTimerJoined == ~staleCancel

\* C20: every resolution finalizes.  While the process runs some thread can
\* take a step (no deadlock between the three), and a process that stopped
\* after both threads were created and without a failed join stopped at its
\* exit, having written "fqdn=".
C20_FinalizesWithReport ==
  /\ Alive => ENABLED Next
  /\ (~Alive /\ Launched /\ ~JoinFailed) => (mpc = "done" /\ HasReport)

\* the part of C20 that the code keeps: under weak fairness of the three
\* threads the process always stops, and without a stale cancellation and
\* without a failed join it stops with "fqdn=" written
MainNext ==
  \/ CheckArgs \/ CreateTimer \/ CreateRdns \/ JoinTimerOk \/ JoinTimerFails
  \/ Probe \/ JoinRdnsOk \/ JoinRdnsFails \/ Report
TimerNext ==
  \/ TimerStart \/ TimerInterrupted \/ TimerRefused \/ TimerExpires
  \/ TimerCancelled
RdnsNext ==
  \/ RdnsStart \/ Getifaddrs \/ LoopStep \/ Lookup \/ SetFqdn \/ Freeifaddrs
  \/ RdnsCancelled
FairSpec ==
  Spec /\ WF_vars(MainNext) /\ WF_vars(TimerNext) /\ WF_vars(RdnsNext)
C20_StopsUnderFairness == <>(~Alive)
C20_ReportsUnlessStaleCancel ==
  Launched ~> (HasReport \/ JoinFailed \/ staleCancel)

====
